---- MODULE Spec2Model ----
(***************************************************************************)
(* ArucoNode of ros2_aruco/aruco_node.py: construction, the camera-info    *)
(* handler, the image handler with its marker filter, and the encoding of  *)
(* each accepted pose into two 5-byte CAN frames.                          *)
(*                                                                         *)
(* Representation.  An optional value (Python None or a value v) is the    *)
(* sequence << >> or <<v>>.  A position is an integer number of 1/10000 m, *)
(* so that position * 100 (centimetres) is the exact fraction p / 100; an  *)
(* angle is an integer number of 1/10 degree.  An image is represented by  *)
(* what detectMarkers and estimatePoseSingleMarkers return on it: the      *)
(* sequence of detected markers, each with its id, its translation (x, z)  *)
(* and the second Euler angle of its rotation.  Message headers, the       *)
(* y coordinate and the preview window carry no behaviour modelled here.   *)
(***************************************************************************)
EXTENDS Integers, Sequences, FiniteSets, TLC

VARIABLES
    phase,               \* "start" before __init__, "running" once spin() runs, "failed" if __init__ raised
    exception,           \* the exception that escaped __init__, "none" if none
    dictionary_id_name,  \* parameter aruco_dictionary_id
    id_whitelist,        \* self.id_whitelist (parameter id_whitelist)
    info_sub,            \* TRUE while the camera-info subscription exists
    info_msg,            \* self.info_msg
    intrinsic_mat,       \* self.intrinsic_mat
    distortion,          \* self.distortion
    detector,            \* self.detector: optional dictionary id the detector was built with
    last_call,           \* the handler that ran last
    cam_info,            \* the camera-info message of the last step, None if it had none
    img_msg,             \* the image of the last step: what detection finds in it
    detect_calls,        \* number of detectMarkers calls made by the last handler
    logged,              \* log records written by the last handler
    out                  \* messages published by the last handler, in order

node == <<phase, exception, dictionary_id_name, id_whitelist, info_sub,
          info_msg, intrinsic_mat, distortion, detector>>
vars == <<phase, exception, dictionary_id_name, id_whitelist, info_sub,
          info_msg, intrinsic_mat, distortion, detector,
          last_call, cam_info, img_msg, detect_calls, logged, out>>

None == << >>
Some(v) == <<v>>

(* Bounds of the model. *)
MaxMarkers == 2
MaxId == 2

Ids == 1 .. MaxId

(* ---------------------------------------------------------------------- *)
(* Inputs                                                                  *)
(* ---------------------------------------------------------------------- *)

SeqsUpTo(S, n) == UNION {[1 .. k -> S] : k \in 0 .. n}

(* The allow-lists: every set of ids, listed in descending order. *)
RECURSIVE Descending(_)
Descending(S) ==
    IF S = {} THEN << >>
    ELSE LET m == CHOOSE x \in S : \A y \in S : y <= x
         IN  <<m>> \o Descending(S \ {m})

Whitelists == {Descending(S) : S \in SUBSET Ids}

(* Names the parameter aruco_dictionary_id may hold, with what             *)
(* cv2.aruco.__getattribute__ finds under each: a dictionary id (an int),  *)
(* an int constant that is no dictionary id, a non-int attribute, nothing. *)
DictionaryNames == {"DICT_5X5_250", "CORNER_REFINE_NONE", "Dictionary", "DICT_BOGUS"}

AttrKind(name) ==
    CASE name = "DICT_5X5_250" -> "int"
      [] name = "CORNER_REFINE_NONE" -> "int"
      [] name = "Dictionary" -> "class"
      [] OTHER -> "absent"

AttrValue(name) ==
    CASE name = "DICT_5X5_250" -> 6
      [] name = "CORNER_REFINE_NONE" -> 0
      [] OTHER -> 0 - 1

IsDictionaryName(name) == name = "DICT_5X5_250"

CameraInfo(c) == [k |-> <<c, 0, 3, 0, c, 2, 0, 0, 1>>, d |-> <<0, 0, 0, 0, c>>]
CameraInfos == {CameraInfo(5), CameraInfo(7)}

Pose(x, z, beta) == [x |-> x, z |-> z, beta |-> beta]
Marker(id, pose) == [id |-> id, pose |-> pose]

PoseSamples == {Pose(3000, 12000, 0), Pose(0 - 1267, 25560, 905)}
Markers == {Marker(i, p) : i \in Ids, p \in PoseSamples}
Images == SeqsUpTo(Markers, MaxMarkers)

(* ---------------------------------------------------------------------- *)
(* Arithmetic of the encoder                                               *)
(* ---------------------------------------------------------------------- *)

(* np.int32(v) of the float v = num / den: conversion truncates toward 0. *)
(* Variant: conversion by floor. *)
Int32FloorOf(num, den) == num \div den
Int32Of(num, den) == IF num >= 0 THEN num \div den ELSE 0 - ((0 - num) \div den)

(* np.right_shift(v, n) and v >> n on a signed integer: arithmetic shift. *)
(* Variant: a shift that rounds toward zero. *)
RightShiftTowardZero(v, n) == IF v >= 0 THEN v \div (2 ^ n) ELSE 0 - ((0 - v) \div (2 ^ n))
RightShift(v, n) == v \div (2 ^ n)

(* v & 0xFF on a signed integer (two's complement). *)
And0xFF(v) == v % 256

(* ndarray.astype(np.uint8).tolist() of an array of integral floats. *)
AsUint8List(data) == [i \in DOMAIN data |-> data[i] % 256]

(* Lines 261-262: centimetres from metres. *)
PositionX(pose) == Int32Of(pose.x * 100, 10000)
PositionZ(pose) == Int32Of(pose.z * 100, 10000)

(* Line 259: r = 180 - np.int32(np.rad2deg(euler[1])). *)
R(pose) == 180 - Int32Of(pose.beta, 10)

(* Lines 265-269 and 276: the payload of the position frame. *)
(* Variant: no offset of 128 in either field. *)
DataArray1NoOffset(position_x, position_z) ==
    AsUint8List(<<2,
                  And0xFF(RightShift(position_x, 8)),
                  And0xFF(position_x),
                  And0xFF(RightShift(position_z, 8)),
                  And0xFF(position_z)>>)
DataArray1(position_x, position_z) ==
    AsUint8List(<<2,
                  And0xFF(RightShift(position_x, 8)),
                  And0xFF(position_x + 128),
                  And0xFF(RightShift(position_z + 128, 8)),
                  And0xFF(position_z)>>)

(* Lines 270-274 and 278: the payload of the orientation frame. *)
DataArray2(r) ==
    AsUint8List(<<3, And0xFF(RightShift(r, 8)), And0xFF(r), 0, 0>>)

(* ---------------------------------------------------------------------- *)
(* Messages                                                                *)
(* ---------------------------------------------------------------------- *)

(* Lines 244-249: can_topic with its payload set (lines 276, 278). *)
CanTopic(data) ==
    [topic |-> "can_frame", id |-> 65, frame |-> "CAN_DATA",
     format |-> "STANDARD_FORMAT", data |-> data]

PoseArray(poses) == [topic |-> "aruco_poses", poses |-> poses]

ArucoMarkers(marker_ids, poses) ==
    [topic |-> "aruco_markers", marker_ids |-> marker_ids, poses |-> poses]

(* ---------------------------------------------------------------------- *)
(* image_callback, by parts                                                *)
(* ---------------------------------------------------------------------- *)

(* Line 207: marker_ids is None when nothing is detected, else one id per  *)
(* detected marker, in detection order.                                    *)
DetectMarkers(img) == IF Len(img) = 0 THEN None ELSE Some([i \in DOMAIN img |-> img[i].id])

(* Line 224: marker_id in self.id_whitelist or len(self.id_whitelist) == 0 *)
(* Variant: membership alone, an empty list accepting nothing. *)
InWhitelistOnly(marker_id, whitelist) ==
    \E j \in DOMAIN whitelist : whitelist[j] = marker_id
InWhitelist(marker_id, whitelist) ==
    \/ \E j \in DOMAIN whitelist : whitelist[j] = marker_id
    \/ Len(whitelist) = 0

(* Lines 223-241: the loop over enumerate(marker_ids), from index i on,    *)
(* appending to markers.marker_ids and to the shared list of poses.        *)
RECURSIVE Enumerate(_, _, _, _)
Enumerate(i, img, whitelist, markers) ==
    IF i > Len(img) THEN markers
    ELSE Enumerate(i + 1, img, whitelist,
                   IF InWhitelist(img[i].id, whitelist)
                   THEN [marker_ids |-> Append(markers.marker_ids, img[i].id),
                         poses |-> Append(markers.poses, img[i].pose)]
                   ELSE markers)

(* Lines 254-279: the body of the loop over pose_array.poses, one pose.    *)
(* Variant: orientation frame first. *)
PublishPairSwapped(pose) ==
    <<CanTopic(DataArray2(R(pose))),
      CanTopic(DataArray1(PositionX(pose), PositionZ(pose)))>>
PublishPair(pose) ==
    <<CanTopic(DataArray1(PositionX(pose), PositionZ(pose))),
      CanTopic(DataArray2(R(pose)))>>

(* Lines 253-279: the loop over pose_array.poses, from index i on.         *)
RECURSIVE PublishFrames(_, _)
PublishFrames(i, poses) ==
    IF i > Len(poses) THEN << >>
    ELSE PublishPair(poses[i]) \o PublishFrames(i + 1, poses)

(* Line 263: one info record per pose.                                     *)
PositionLog(poses) ==
    [i \in DOMAIN poses |->
        [level |-> "info", msg |-> "Position",
         args |-> <<PositionX(poses[i]), PositionZ(poses[i]), R(poses[i])>>]]

(* Line 243: len(markers.marker_ids) > 0 *)
(* Variant: no test of the accepted count. *)
AnyMarkers(marker_ids) == TRUE
HasMarkers(marker_ids) == Len(marker_ids) > 0

(* Lines 253-281: frames first, then the two aggregate messages.           *)
(* Variant: the aggregate messages before the loop. *)
CycleAggregatesFirst(frames, pose_array, markers) == <<pose_array, markers>> \o frames
Cycle(frames, pose_array, markers) == frames \o <<pose_array, markers>>

(* Lines 214-281: what one image makes the node publish.                   *)
Published(img, whitelist) ==
    LET marker_ids == DetectMarkers(img)
        markers == Enumerate(1, img, whitelist, [marker_ids |-> << >>, poses |-> << >>])
    IN  IF marker_ids # None /\ HasMarkers(markers.marker_ids)
        THEN Cycle(PublishFrames(1, markers.poses),
                   PoseArray(markers.poses),
                   ArucoMarkers(markers.marker_ids, markers.poses))
        ELSE << >>

Logged(img, whitelist) ==
    LET marker_ids == DetectMarkers(img)
        markers == Enumerate(1, img, whitelist, [marker_ids |-> << >>, poses |-> << >>])
    IN  IF marker_ids # None /\ HasMarkers(markers.marker_ids)
        THEN PositionLog(markers.poses)
        ELSE << >>

(* Line 190: self.info_msg is None *)
(* Variant: no test of the calibration. *)
NeverMissing(info) == FALSE
InfoMissing(info) == info = None

(* Line 184: np.reshape(np.array(k), (3, 3)) *)
Reshape33(k) == <<SubSeq(k, 1, 3), SubSeq(k, 4, 6), SubSeq(k, 7, 9)>>

(* Line 187: destroy_subscription leaves no camera-info subscription.      *)
(* Variant: the subscription is kept. *)
KeepSubscription(sub) == sub
DestroySubscription(sub) == FALSE

(* ---------------------------------------------------------------------- *)
(* State machine                                                           *)
(* ---------------------------------------------------------------------- *)

Init ==
    /\ phase = "start"
    /\ exception = "none"
    /\ dictionary_id_name \in DictionaryNames
    /\ id_whitelist \in Whitelists
    /\ info_sub = FALSE
    /\ info_msg = None
    /\ intrinsic_mat = None
    /\ distortion = None
    /\ detector = None
    /\ last_call = "none"
    /\ cam_info = None
    /\ img_msg = << >>
    /\ detect_calls = 0
    /\ logged = << >>
    /\ out = << >>

(* Lines 145-154: the try block.  dictionary_id is bound iff line 146      *)
(* returned; AttributeError is raised by line 146 or by line 148.          *)
DictionaryLookup(name) ==
    [bound |-> AttrKind(name) # "absent",
     is_int |-> AttrKind(name) = "int",
     value |-> AttrValue(name),
     attribute_error |-> AttrKind(name) # "int"]

(* Line 175: reading dictionary_id and calling getPredefinedDictionary.    *)
GetPredefinedDictionary(dictionary_id) ==
    IF ~dictionary_id.bound THEN [raised |-> "UnboundLocalError", dictionary |-> None]
    ELSE IF ~dictionary_id.is_int THEN [raised |-> "cv2.error", dictionary |-> None]
    ELSE [raised |-> "none", dictionary |-> Some(dictionary_id.value)]

(* Lines 46-179 and 284-287: ArucoNode() in main(); spin() runs only if    *)
(* the constructor returns.                                                *)
__init__ ==
    /\ phase = "start"
    /\ LET dictionary_id == DictionaryLookup(dictionary_id_name)
           dictionary == GetPredefinedDictionary(dictionary_id)
       IN  /\ logged' = IF dictionary_id.attribute_error
                        THEN <<[level |-> "error", msg |-> "bad aruco_dictionary_id",
                                args |-> <<dictionary_id_name>>],
                               [level |-> "error", msg |-> "valid options",
                                args |-> <<"DICT_5X5_250">>]>>
                        ELSE << >>
           /\ info_sub' = TRUE
           /\ info_msg' = None
           /\ intrinsic_mat' = None
           /\ distortion' = None
           /\ exception' = dictionary.raised
           /\ detector' = dictionary.dictionary
           /\ phase' = IF dictionary.raised = "none" THEN "running" ELSE "failed"
    /\ last_call' = "init"
    /\ detect_calls' = 0
    /\ out' = << >>
    /\ cam_info' = None
    /\ img_msg' = << >>
    /\ UNCHANGED <<dictionary_id_name, id_whitelist>>

(* Lines 181-187 *)
info_callback(msg) ==
    /\ phase = "running"
    /\ info_sub
    /\ logged' = <<[level |-> "info", msg |-> "Camera info received.", args |-> << >>]>>
    /\ info_msg' = Some(msg)
    /\ intrinsic_mat' = Some(Reshape33(msg.k))
    /\ distortion' = Some(msg.d)
    /\ info_sub' = DestroySubscription(info_sub)
    /\ last_call' = "info"
    /\ cam_info' = Some(msg)
    /\ detect_calls' = 0
    /\ out' = << >>
    /\ img_msg' = << >>
    /\ UNCHANGED <<phase, exception, dictionary_id_name, id_whitelist, detector>>

(* Line 187: with the subscription destroyed, a camera-info message the    *)
(* camera publishes reaches no handler.                                    *)
info_undelivered(msg) ==
    /\ phase = "running"
    /\ ~info_sub
    /\ last_call' = "undelivered"
    /\ cam_info' = Some(msg)
    /\ detect_calls' = 0
    /\ logged' = << >>
    /\ out' = << >>
    /\ img_msg' = << >>
    /\ UNCHANGED node

(* Lines 189-281 *)
image_callback(img) ==
    /\ phase = "running"
    /\ last_call' = "image"
    /\ img_msg' = img
    /\ IF InfoMissing(info_msg)
       THEN /\ logged' = <<[level |-> "warn", msg |-> "No camera info has been received!",
                            args |-> << >>]>>
            /\ detect_calls' = 0
            /\ out' = << >>
       ELSE /\ detect_calls' = 1
            /\ logged' = Logged(img, id_whitelist)
            /\ out' = Published(img, id_whitelist)
    /\ cam_info' = None
    /\ UNCHANGED node

Next ==
    \/ __init__
    \/ \E msg \in CameraInfos : info_callback(msg)
    \/ \E msg \in CameraInfos : info_undelivered(msg)
    \/ \E img \in Images : image_callback(img)

Spec == Init /\ [][Next]_vars

(* ---------------------------------------------------------------------- *)
(* The encoder on a wide range of positions: the node is running with      *)
(* calibration received (the state after __init__ and one info_callback)   *)
(* and receives images of one marker each.                                 *)
(* ---------------------------------------------------------------------- *)

EncHighBytes == {0 - 129, 0 - 128, 0 - 2, 0 - 1, 0, 1, 127, 128, 273}
EncLowBytes == {0, 1, 127, 128, 255}
EncWhole == {(h * 256 + l) * 100 : h \in EncHighBytes, l \in EncLowBytes}
EncFractional == {0 - 3060, 0 - 250, 0 - 199, 0 - 160, 0 - 50, 0 - 1,
                  1, 49, 50, 60, 99, 160, 3060}
EncPositions == EncWhole \cup EncFractional

EncFew == {(0 - 129) * 25600, 0 - 160, 60, 3060, 25500, 128 * 25600 + 12700}

(* Every position on one axis against a few on the other. *)
EncImages ==
    {<<Marker(1, Pose(x, z, 450))>> : x \in EncPositions, z \in EncFew}
    \cup {<<Marker(1, Pose(x, z, 450))>> : x \in EncFew, z \in EncPositions}

InitEnc ==
    /\ phase = "running"
    /\ exception = "none"
    /\ dictionary_id_name = "DICT_5X5_250"
    /\ id_whitelist = << >>
    /\ info_sub = FALSE
    /\ info_msg = Some(CameraInfo(5))
    /\ intrinsic_mat = Some(Reshape33(CameraInfo(5).k))
    /\ distortion = Some(CameraInfo(5).d)
    /\ detector = Some(AttrValue("DICT_5X5_250"))
    /\ last_call = "info"
    /\ cam_info = Some(CameraInfo(5))
    /\ img_msg = << >>
    /\ detect_calls = 0
    /\ logged = <<[level |-> "info", msg |-> "Camera info received.", args |-> << >>]>>
    /\ out = << >>

NextEnc == \E img \in EncImages : image_callback(img)

SpecEnc == InitEnc /\ [][NextEnc]_vars

(* ---------------------------------------------------------------------- *)
(* Properties                                                              *)
(* ---------------------------------------------------------------------- *)

Range(f) == {f[i] : i \in DOMAIN f}
IsCanFrame(m) == m.topic = "can_frame"
CanFrames(o) == SelectSeq(o, IsCanFrame)
Indices(o, topic) == {i \in DOMAIN o : o[i].topic = topic}

(* The markers a cycle is to accept, as the filter policy states it. *)
Accepted(img, whitelist) ==
    IF whitelist = << >> THEN img
    ELSE LET Listed(m) == m.id \in Range(whitelist) IN SelectSeq(img, Listed)

AcceptedIds(img, whitelist) ==
    LET acc == Accepted(img, whitelist) IN [i \in DOMAIN acc |-> acc[i].id]

(* The last handler was image_callback and calibration was present. *)
CycleRan == last_call = "image" /\ info_msg # None

(* C1: a cycle with calibration present and N accepted markers publishes   *)
(* exactly 2N CAN frames; frame 2k-1 is the position frame (tag 2) and     *)
(* frame 2k the orientation frame (tag 3) of the k-th accepted marker.     *)
C1_FramePairsInDetectionOrder ==
    CycleRan =>
        LET acc == Accepted(img_msg, id_whitelist)
            frames == CanFrames(out)
        IN  /\ Len(frames) = 2 * Len(acc)
            /\ \A k \in DOMAIN acc :
                /\ frames[2 * k - 1].data[1] = 2
                /\ frames[2 * k - 1].data =
                       DataArray1(PositionX(acc[k].pose), PositionZ(acc[k].pose))
                /\ frames[2 * k].data[1] = 3
                /\ frames[2 * k].data = DataArray2(R(acc[k].pose))

C1_Witness ==
    /\ CycleRan
    /\ Len(Accepted(img_msg, id_whitelist)) >= 2
    /\ img_msg[1].pose # img_msg[2].pose
    /\ Len(CanFrames(out)) = 2 * Len(img_msg)

(* C2: an image_callback in which no marker is accepted publishes nothing: *)
(* no CAN frame, no pose array, no marker set.                             *)
C2_NothingWithoutAcceptedMarker ==
    (last_call = "image" /\ Accepted(img_msg, id_whitelist) = << >>) => out = << >>

C2_Witness ==
    /\ CycleRan
    /\ Len(img_msg) > 0
    /\ Accepted(img_msg, id_whitelist) = << >>
    /\ out = << >>

(* C3: a cycle with at least one accepted marker publishes the pose array  *)
(* once and the marker set once, both after every CAN frame of the cycle.  *)
C3_AggregatesOnceAfterFrames ==
    (CycleRan /\ Accepted(img_msg, id_whitelist) # << >>) =>
        /\ Cardinality(Indices(out, "aruco_poses")) = 1
        /\ Cardinality(Indices(out, "aruco_markers")) = 1
        /\ Indices(out, "can_frame") # {}
        /\ \A f \in Indices(out, "can_frame") :
             \A a \in Indices(out, "aruco_poses") \cup Indices(out, "aruco_markers") : f < a

C3_Witness ==
    /\ CycleRan
    /\ Len(out) >= 4
    /\ out[Len(out)].topic = "aruco_markers"
    /\ out[Len(out) - 1].topic = "aruco_poses"
    /\ out[Len(out) - 2].topic = "can_frame"

(* C4: with an empty allow-list the accepted ids are the detected ids;     *)
(* otherwise they are the detected ids that are in the allow-list, in      *)
(* detection order, without reordering or deduplication.                   *)
C4_FilterKeepsListedInOrder ==
    CycleRan =>
        LET ids == AcceptedIds(img_msg, id_whitelist)
            markers == Enumerate(1, img_msg, id_whitelist,
                                 [marker_ids |-> << >>, poses |-> << >>])
        IN  /\ markers.marker_ids = ids
            /\ IF ids = << >> THEN out = << >>
               ELSE \A i \in Indices(out, "aruco_markers") : out[i].marker_ids = ids
            /\ ids # << >> => Indices(out, "aruco_markers") # {}

C4_Witness ==
    /\ CycleRan
    /\ Len(id_whitelist) > 0
    /\ Len(img_msg) = 2
    /\ img_msg[1].id \notin Range(id_whitelist)
    /\ img_msg[2].id \in Range(id_whitelist)
    /\ \E i \in DOMAIN out :
         out[i].topic = "aruco_markers" /\ out[i].marker_ids = <<img_msg[2].id>>

(* C5: an image handled while no calibration is stored is skipped: no      *)
(* detection, nothing published, node state unchanged; an image handled    *)
(* with calibration stored goes through detection.                         *)
C5_SkipWithoutCalibration ==
    [][(last_call' = "image") =>
          IF info_msg = None
          THEN detect_calls' = 0 /\ out' = << >> /\ UNCHANGED node
          ELSE detect_calls' = 1]_vars

C5_Witness ==
    /\ last_call = "image"
    /\ info_msg = None
    /\ Len(img_msg) > 0
    /\ detect_calls = 0
    /\ out = << >>

(* C6: once calibration is stored it is never cleared and never changed,   *)
(* whatever camera-info messages and images arrive later.                  *)
C6_CalibrationSetOnce ==
    [][info_msg # None => UNCHANGED <<info_msg, intrinsic_mat, distortion>>]_vars

C6_Witness ==
    /\ last_call = "undelivered"
    /\ info_msg # None
    /\ cam_info # info_msg

(* A signed integer as its 24-bit two's complement pattern, and a byte of it. *)
TwosComplement(v) == IF v >= 0 THEN v ELSE v + 2 ^ 24
ByteOf(v, n) == (TwosComplement(v) \div (256 ^ n)) % 256

(* C7: the position frame of an accepted marker is the 5 bytes             *)
(* 2, (qx >> 8) & 0xFF, (qx + 128) & 0xFF, ((qz + 128) >> 8) & 0xFF,       *)
(* qz & 0xFF, each in 0..255, also for values outside 16 bits.             *)
C7_PositionFrameBytes ==
    CycleRan =>
        LET acc == Accepted(img_msg, id_whitelist)
            frames == CanFrames(out)
        IN  \A k \in DOMAIN acc :
              LET qx == PositionX(acc[k].pose)
                  qz == PositionZ(acc[k].pose)
                  data == frames[2 * k - 1].data
              IN  /\ data = <<2, ByteOf(qx, 1), ByteOf(qx + 128, 0),
                              ByteOf(qz + 128, 1), ByteOf(qz, 0)>>
                  /\ \A i \in DOMAIN data : data[i] \in 0 .. 255

C7_Witness ==
    /\ CycleRan
    /\ Len(img_msg) = 1
    /\ PositionX(img_msg[1].pose) < 0 - 32768
    /\ PositionZ(img_msg[1].pose) > 32767
    /\ Len(CanFrames(out)) = 2

(* C8 as stated: qx and qz are 100x and 100z rounded to the nearest        *)
(* integer, also for negative values and fractions of 0.5 or more.         *)
Abs(v) == IF v >= 0 THEN v ELSE 0 - v
Nearest(q, p) == 2 * Abs(100 * q - p) <= 100
C8_QuantizeRounds ==
    CycleRan =>
        \A k \in DOMAIN img_msg :
            /\ Nearest(PositionX(img_msg[k].pose), img_msg[k].pose.x)
            /\ Nearest(PositionZ(img_msg[k].pose), img_msg[k].pose.z)

(* C8 amended: qx and qz are 100x and 100z truncated toward zero.          *)
TowardZero(q, p) ==
    /\ 100 * Abs(q) <= Abs(p)
    /\ Abs(p) < 100 * Abs(q) + 100
    /\ (q > 0 => p > 0)
    /\ (q < 0 => p < 0)
C8_QuantizeTruncates ==
    CycleRan =>
        \A k \in DOMAIN img_msg :
            /\ TowardZero(PositionX(img_msg[k].pose), img_msg[k].pose.x)
            /\ TowardZero(PositionZ(img_msg[k].pose), img_msg[k].pose.z)

C8_Witness ==
    /\ CycleRan
    /\ Len(img_msg) = 1
    /\ img_msg[1].pose.x = 0 - 160
    /\ img_msg[1].pose.z = 3060
    /\ logged[1].args[1] = 0 - 1
    /\ logged[1].args[2] = 30

(* C9: with an invalid dictionary identifier, construction logs the error  *)
(* and the valid options and completes: no exception escapes __init__ and  *)
(* the detector is set up.                                                 *)
C9_InvalidDictionaryDegrades ==
    (phase # "start" /\ ~IsDictionaryName(dictionary_id_name)) =>
        /\ phase = "running"
        /\ exception = "none"
        /\ detector # None
        /\ last_call = "init" =>
             /\ Len(logged) = 2
             /\ logged[1].level = "error"
             /\ logged[2].msg = "valid options"

(* C10: for qx, qz in the signed 16-bit range the position frame bytes     *)
(* b1..b4 give back qx & 0xFFFF and qz & 0xFFFF:                           *)
(* (b1 << 8) | ((b2 - 128) & 0xFF) and (((b3 - c) & 0xFF) << 8) | b4 with  *)
(* c = 1 if b4 >= 128 else 0.                                              *)
Int16 == (0 - 32768) .. 32767
C10_PositionFrameDecodes ==
    CycleRan =>
        LET acc == Accepted(img_msg, id_whitelist)
            frames == CanFrames(out)
        IN  \A k \in DOMAIN acc :
              LET qx == PositionX(acc[k].pose)
                  qz == PositionZ(acc[k].pose)
                  b == frames[2 * k - 1].data
                  c == IF b[5] >= 128 THEN 1 ELSE 0
              IN  /\ qx \in Int16 => qx % 65536 = b[2] * 256 + ((b[3] - 128) % 256)
                  /\ qz \in Int16 => qz % 65536 = ((b[4] - c) % 256) * 256 + b[5]

C10_Witness ==
    /\ CycleRan
    /\ Len(img_msg) = 1
    /\ PositionX(img_msg[1].pose) = 0 - 32768
    /\ PositionZ(img_msg[1].pose) = 255
    /\ CanFrames(out)[1].data = <<2, 128, 128, 1, 255>>

====
